---- MODULE Spec2Model ----
(***************************************************************************)
(* DuckDbAgent (src/phi/llm/agent/duckdb.py): a tool adapter over an       *)
(* embedded SQL engine.  One adapter instance is modelled.  Calls are      *)
(* synchronous, so every operation is one atomic action.  The engine is    *)
(* an external collaborator: what duckdb.connect, .sql, .fetchall and      *)
(* str() of a result do is chosen nondeterministically per call.           *)
(*                                                                         *)
(* A text (Python str) is a sequence of atoms.  An atom is one character,  *)
(* or a literal fragment of the source that contains none of the           *)
(* characters the code searches for (backtick, semicolon, slash, period,   *)
(* hyphen, space are always atoms of their own where they matter).         *)
(***************************************************************************)
EXTENDS Naturals, Integers, Sequences, FiniteSets, TLC

VARIABLES
    supplied,     \* __init__ was given a duckdb_connection argument
    self_conn,    \* the field self._duckdb_connection
    connects,     \* handles created by duckdb.connect so far
    setup_log,    \* statements the accessor submitted while setting up httpfs
    setup_failed, \* a setup statement raised inside the accessor
    prev_handle,  \* the handle the accessor returned in the call before the last
    call          \* the last call made on the adapter and what it did

vars == <<supplied, self_conn, connects, setup_log, setup_failed, prev_handle, call>>

-----------------------------------------------------------------------------
(* Bounds *)

MaxQueryLen == 3
MaxPathLen == 2
MaxRows == 2
MaxIdLen == 2

-----------------------------------------------------------------------------
(* Python str helpers, computed as the interpreter computes them *)

RECURSIVE Replace(_, _, _)
\* s.replace(old, new), old a single character
Replace(s, old, new) ==
    IF s = <<>> THEN <<>>
    ELSE (IF Head(s) = old THEN new ELSE <<Head(s)>>) \o Replace(Tail(s), old, new)

RECURSIVE Find(_, _, _)
\* s.find(ch) from 1-based position i; 0 when absent
Find(s, ch, i) ==
    IF i > Len(s) THEN 0
    ELSE IF s[i] = ch THEN i
    ELSE Find(s, ch, i + 1)

RECURSIVE RFind(_, _, _)
\* s.rfind(ch) searching down from 1-based position i; 0 when absent
RFind(s, ch, i) ==
    IF i < 1 THEN 0
    ELSE IF s[i] = ch THEN i
    ELSE RFind(s, ch, i - 1)

RECURSIVE Split(_, _)
\* s.split(sep): the list of pieces, never empty
Split(s, sep) ==
    LET k == Find(s, sep, 1)
    IN  IF k = 0 THEN <<s>>
        ELSE <<SubSeq(s, 1, k - 1)>> \o Split(SubSeq(s, k + 1, Len(s)), sep)

RECURSIVE Join(_, _)
\* sep.join(parts)
Join(parts, sep) ==
    IF parts = <<>> THEN <<>>
    ELSE IF Len(parts) = 1 THEN parts[1]
    ELSE parts[1] \o sep \o Join(Tail(parts), sep)

RECURSIVE Digits(_)
Digits(n) ==
    IF n < 10 THEN <<ToString(n)>>
    ELSE Digits(n \div 10) \o <<ToString(n % 10)>>

\* str(x) of a row value
str_value(x) ==
    CASE x.t = "int" -> IF x.v < 0 THEN <<"-">> \o Digits(0 - x.v) ELSE Digits(x.v)
      [] x.t = "NoneType" -> <<"N", "o", "n", "e">>
      [] x.t = "str" -> x.v

\* str(e) of an exception: its single argument, or "" without arguments
str_exc(e) == IF e.args = <<>> THEN <<>> ELSE e.args[1]

RECURSIVE SkipDots(_, _, _)
\* genericpath._splitext's loop over leading dots: TRUE when a non-dot
\* character lies in p[i .. dot-1]
SkipDots(p, i, dot) ==
    IF i >= dot THEN FALSE
    ELSE IF p[i] # "." THEN TRUE
    ELSE SkipDots(p, i + 1, dot)

\* os.path.splitext(p): <<root, ext>>
splitext(p) ==
    LET sepIndex == RFind(p, "/", Len(p))
        dotIndex == RFind(p, ".", Len(p))
    IN  IF dotIndex > sepIndex /\ SkipDots(p, sepIndex + 1, dotIndex)
        THEN <<SubSeq(p, 1, dotIndex - 1), SubSeq(p, dotIndex, Len(p))>>
        ELSE <<p, <<>>>>

-----------------------------------------------------------------------------
(* Values of the model *)

\* The atom of the grave accent character (U+0060), which a TLA+ string
\* cannot hold
Backtick == "BACKTICK"

NoConn == [origin |-> "None", n |-> 0]
CtorConn == [origin |-> "ctor", n |-> 0]
NewConn(k) == [origin |-> "connect", n |-> k]

NoExc == [cls |-> "None", args |-> <<>>]
Exc(cls, msg) == [cls |-> cls, args |-> <<msg>>]

NoResult == [kind |-> "unreached", exc |-> NoExc, columns |-> <<>>, rows |-> <<>>,
             mat |-> NoExc, repr |-> <<>>, repr_exc |-> NoExc]

SetupStatements == <<"INSTALL httpfs;", "LOAD httpfs;", "SET s3_region='{self.s3_region}';">>

-----------------------------------------------------------------------------
(* The connection accessor *)

\* duckdb_connection with no try/except around the setup
duckdb_connection_propagating(c, s) ==
    IF self_conn = NoConn
    THEN IF c # NoExc
         THEN [field |-> NoConn, connects |-> connects, log |-> setup_log,
               setup_failed |-> setup_failed, raised |-> TRUE, exc |-> c, handle |-> NoConn]
         ELSE [field |-> NewConn(connects + 1), connects |-> connects + 1,
               log |-> setup_log \o SubSeq(SetupStatements, 1,
                                           IF s.step = 0 THEN Len(SetupStatements) ELSE s.step),
               setup_failed |-> (setup_failed \/ s.step # 0),
               raised |-> s.step # 0,
               exc |-> IF s.step = 0 THEN NoExc ELSE s.exc,
               handle |-> IF s.step = 0 THEN NewConn(connects + 1) ELSE NoConn]
    ELSE [field |-> self_conn, connects |-> connects, log |-> setup_log,
          setup_failed |-> setup_failed, raised |-> FALSE, exc |-> NoExc, handle |-> self_conn]

\* duckdb_connection without the "is None" test: connects on every access
duckdb_connection_eager(c, s) ==
    IF c # NoExc
    THEN [field |-> self_conn, connects |-> connects, log |-> setup_log,
          setup_failed |-> setup_failed, raised |-> TRUE, exc |-> c, handle |-> NoConn]
    ELSE [field |-> NewConn(connects + 1), connects |-> connects + 1,
          log |-> setup_log \o SubSeq(SetupStatements, 1,
                                      IF s.step = 0 THEN Len(SetupStatements) ELSE s.step),
          setup_failed |-> (setup_failed \/ s.step # 0),
          raised |-> FALSE, exc |-> NoExc, handle |-> NewConn(connects + 1)]

\* duckdb_connection testing the setup's success instead of the field:
\* the setup runs again on the handle after a failed setup
duckdb_connection_retrying(c, s) ==
    IF self_conn = NoConn
    THEN IF c # NoExc
         THEN [field |-> NoConn, connects |-> connects, log |-> setup_log,
               setup_failed |-> setup_failed, raised |-> TRUE, exc |-> c, handle |-> NoConn]
         ELSE [field |-> NewConn(connects + 1), connects |-> connects + 1,
               log |-> setup_log \o SubSeq(SetupStatements, 1,
                                           IF s.step = 0 THEN Len(SetupStatements) ELSE s.step),
               setup_failed |-> (setup_failed \/ s.step # 0),
               raised |-> FALSE, exc |-> NoExc, handle |-> NewConn(connects + 1)]
    ELSE IF setup_failed /\ Len(setup_log) <= 3
         THEN [field |-> self_conn, connects |-> connects,
               log |-> setup_log \o SubSeq(SetupStatements, 1,
                                           IF s.step = 0 THEN Len(SetupStatements) ELSE s.step),
               setup_failed |-> setup_failed, raised |-> FALSE, exc |-> NoExc, handle |-> self_conn]
         ELSE [field |-> self_conn, connects |-> connects, log |-> setup_log,
               setup_failed |-> setup_failed, raised |-> FALSE, exc |-> NoExc, handle |-> self_conn]

\* The property duckdb_connection.  c is what duckdb.connect does (NoExc: it
\* returns a fresh handle, else the exception it raises); s is what the
\* setup does (step 0: all three statements succeed, else the step, 1..3,
\* whose statement raises s.exc).  Neither is consulted when the field
\* already holds a handle.
duckdb_connection(c, s) ==
    IF self_conn = NoConn
    THEN IF c # NoExc
         THEN [field |-> NoConn, connects |-> connects, log |-> setup_log,
               setup_failed |-> setup_failed, raised |-> TRUE, exc |-> c, handle |-> NoConn]
         ELSE [field |-> NewConn(connects + 1), connects |-> connects + 1,
               log |-> setup_log \o SubSeq(SetupStatements, 1,
                                           IF s.step = 0 THEN Len(SetupStatements) ELSE s.step),
               setup_failed |-> (setup_failed \/ s.step # 0),
               raised |-> FALSE, exc |-> NoExc, handle |-> NewConn(connects + 1)]
    ELSE [field |-> self_conn, connects |-> connects, log |-> setup_log,
          setup_failed |-> setup_failed, raised |-> FALSE, exc |-> NoExc, handle |-> self_conn]

-----------------------------------------------------------------------------
(* run_duckdb_query *)

\* The formatting with the split at the first semicolon left out
format_sql_whole(query) == Replace(query, Backtick, <<>>)

\* The formatting with the removal of backticks left out
format_sql_unstripped(query) == Split(query, ";")[1]

\* The two formatting lines of run_duckdb_query
format_sql(query) == Split(Replace(query, Backtick, <<>>), ";")[1]

\* except clauses that catch the engine's errors only
except_clauses_engine_only(e) ==
    IF e.cls \in {"ProgrammingError", "Error"}
    THEN [raised |-> FALSE, ret |-> str_exc(e), exc |-> NoExc]
    ELSE [raised |-> TRUE, ret |-> <<>>, exc |-> e]

\* The three except clauses of run_duckdb_query, in order; AttributeError
\* and every other class derive from Exception
except_clauses(e) ==
    CASE e.cls = "ProgrammingError" -> [raised |-> FALSE, ret |-> str_exc(e), exc |-> NoExc]
      [] e.cls = "Error" -> [raised |-> FALSE, ret |-> str_exc(e), exc |-> NoExc]
      [] OTHER -> [raised |-> FALSE, ret |-> str_exc(e), exc |-> NoExc]

\* The loop body with a comma appended after the value of a one-column row
render_row_trailing(row) ==
    Join([i \in 1..Len(row) |-> str_value(row[i]) \o <<",">>], <<>>)

\* The body of the loop over the fetched rows
render_row(row) ==
    IF Len(row) = 1
    THEN str_value(row[1])
    ELSE Join([i \in 1..Len(row) |-> str_value(row[i])], <<",">>)

\* result_output for a materialized relation
result_output(columns, rows) ==
    LET result_rows == [i \in 1..Len(rows) |-> render_row(rows[i])]
        result_data == Join(result_rows, <<"\n">>)
    IN  Join(columns, <<",">>) \o <<"\n">> \o result_data

\* What one call of run_duckdb_query does: the accessor's effect (acc), the
\* texts handed to connection.sql (submitted), the first exception raised
\* inside the try (fault), the engine's answer (result), and the return
\* value (query_ret, and ret until a caller builds its own) or the
\* exception that leaves the call.  e is what the engine does
\* with the statement: raises e.exc, returns None, or returns an object
\* whose materialization (fetchall, str of the values, columns) raises
\* e.mat or succeeds, and whose str() is e.repr or raises e.repr_exc.
run_duckdb_query(query, c, s, e) ==
    LET formatted_sql == format_sql(query)
        acc == duckdb_connection(c, s)
        Out(sub, fault, res, h) ==
            [acc |-> acc, submitted |-> sub, fault |-> fault, result |-> res,
             query_ret |-> h.ret, ret |-> h.ret, raised |-> h.raised, exc |-> h.exc]
        Return(text) == [raised |-> FALSE, ret |-> text, exc |-> NoExc]
    IN  IF acc.raised
        THEN Out(<<>>, acc.exc, NoResult, except_clauses(acc.exc))
        ELSE IF e.kind = "raises"
        THEN Out(<<formatted_sql>>, e.exc, NoResult, except_clauses(e.exc))
        ELSE IF e.kind = "None"
        THEN Out(<<formatted_sql>>, NoExc, e, Return(<<"No output">>))
        ELSE IF e.mat = NoExc
        THEN Out(<<formatted_sql>>, NoExc, e, Return(result_output(e.columns, e.rows)))
        ELSE IF e.mat.cls = "AttributeError"
        THEN IF e.repr_exc = NoExc
             THEN Out(<<formatted_sql>>, e.mat, e, Return(e.repr))
             ELSE Out(<<formatted_sql>>, e.mat, e, except_clauses(e.repr_exc))
        ELSE Out(<<formatted_sql>>, e.mat, e, except_clauses(e.mat))

-----------------------------------------------------------------------------
(* The operations built on run_duckdb_query *)

show_tables(c, s, e) ==
    LET stmt == <<"SHOW TABLES", ";">>
    IN  run_duckdb_query(stmt, c, s, e)

\* describe_table returning the description alone
describe_table_bare(table, c, s, e) ==
    LET stmt == <<"DESCRIBE ">> \o table \o <<";">>
    IN  run_duckdb_query(stmt, c, s, e)

describe_table(table, c, s, e) ==
    LET stmt == <<"DESCRIBE ">> \o table \o <<";">>
        r == run_duckdb_query(stmt, c, s, e)
    IN  IF r.raised THEN r
        ELSE [r EXCEPT !.ret = table \o <<"\n">> \o r.ret]

inspect_query(query, c, s, e) ==
    LET stmt == <<"explain ">> \o query \o <<";">>
    IN  run_duckdb_query(stmt, c, s, e)

describe_table_or_view(table, c, s, e) ==
    LET stmt == <<"select column_name, data_type from information_schema.columns where table_name='">>
                \o table \o <<"'", ";">>
        r == run_duckdb_query(stmt, c, s, e)
    IN  IF r.raised THEN r
        ELSE [r EXCEPT !.ret = table \o <<"\n">> \o r.ret]

-----------------------------------------------------------------------------
(* The load operations.  An optional argument is PyNone or Some(text). *)

PyNone == [is_none |-> TRUE, v |-> <<>>]
Some(text) == [is_none |-> FALSE, v |-> text]

\* The derivation without the replacement of spaces
derive_table_name_keeping_spaces(path) ==
    LET file_name == Split(path, "/")[Len(Split(path, "/"))]
        root == splitext(file_name)[1]
    IN  Replace(Replace(Replace(root, "-", <<"_">>), ".", <<"_">>), "/", <<"_">>)

\* The table name derived when table_name is None
derive_table_name(path) ==
    LET file_name == Split(path, "/")[Len(Split(path, "/"))]
        root == splitext(file_name)[1]
    IN  Replace(Replace(Replace(Replace(root, "-", <<"_">>), ".", <<"_">>), " ", <<"_">>),
                "/", <<"_">>)

\* load_local_path_to_table returning the text after the formatting of
\* run_duckdb_query instead of the statement it built
load_local_path_to_table_formatted(path, table_name, c, s, e) ==
    LET tn == IF table_name.is_none THEN derive_table_name(path) ELSE table_name.v
        create_statement == <<"CREATE OR REPLACE TABLE '">> \o tn
                            \o <<"' AS SELECT * FROM '">> \o path \o <<"'", ";">>
        r == run_duckdb_query(create_statement, c, s, e)
    IN  IF r.raised THEN r
        ELSE [r EXCEPT !.ret = <<tn, format_sql(create_statement)>>]

load_local_path_to_table(path, table_name, c, s, e) ==
    LET tn == IF table_name.is_none THEN derive_table_name(path) ELSE table_name.v
        create_statement == <<"CREATE OR REPLACE TABLE '">> \o tn
                            \o <<"' AS SELECT * FROM '">> \o path \o <<"'", ";">>
        r == run_duckdb_query(create_statement, c, s, e)
    IN  IF r.raised THEN r
        ELSE [r EXCEPT !.ret = <<tn, create_statement>>]

load_local_csv_to_table(path, table_name, delimiter, c, s, e) ==
    LET tn == IF table_name.is_none THEN derive_table_name(path) ELSE table_name.v
        select_statement == <<"SELECT * FROM read_csv('">> \o path \o <<"'">>
                            \o (IF ~delimiter.is_none
                                THEN <<", delim='">> \o delimiter.v \o <<"')">>
                                ELSE <<")">>)
        create_statement == <<"CREATE OR REPLACE TABLE '">> \o tn \o <<"' AS ">>
                            \o select_statement \o <<";">>
        r == run_duckdb_query(create_statement, c, s, e)
    IN  IF r.raised THEN r
        ELSE [r EXCEPT !.ret = <<tn, create_statement>>]

load_s3_path_to_table(s3_path, table_name, c, s, e) ==
    LET tn == IF table_name.is_none THEN derive_table_name(s3_path) ELSE table_name.v
        create_statement == <<"CREATE OR REPLACE TABLE '">> \o tn
                            \o <<"' AS SELECT * FROM '">> \o s3_path \o <<"'", ";">>
        r == run_duckdb_query(create_statement, c, s, e)
    IN  IF r.raised THEN r
        ELSE [r EXCEPT !.ret = <<tn, create_statement>>]

load_s3_csv_to_table(s3_path, table_name, delimiter, c, s, e) ==
    LET tn == IF table_name.is_none THEN derive_table_name(s3_path) ELSE table_name.v
        select_statement == <<"SELECT * FROM read_csv('">> \o s3_path \o <<"'">>
                            \o (IF ~delimiter.is_none
                                THEN <<", delim='">> \o delimiter.v \o <<"')">>
                                ELSE <<")">>)
        create_statement == <<"CREATE OR REPLACE TABLE '">> \o tn \o <<"' AS ">>
                            \o select_statement \o <<";">>
        r == run_duckdb_query(create_statement, c, s, e)
    IN  IF r.raised THEN r
        ELSE [r EXCEPT !.ret = <<tn, create_statement>>]

-----------------------------------------------------------------------------
(* Inputs and engine behaviours *)

Texts(alphabet, n) == UNION {[1..k -> alphabet] : k \in 0..n}

IntValue(n) == [t |-> "int", v |-> n]
NoneValue == [t |-> "NoneType", v |-> <<>>]
StrValue(text) == [t |-> "str", v |-> text]

\* What duckdb.connect may do when the accessor calls it
ConnectChoices ==
    IF self_conn = NoConn
    THEN {NoExc, Exc("Error", <<"IO Error: cannot open file">>)}
    ELSE {NoExc}

\* What the three setup statements may do when the accessor submits them
SetupChoices ==
    IF self_conn = NoConn
    THEN {[step |-> 0, exc |-> NoExc]}
         \cup {[step |-> k, exc |-> Exc("Error", <<"HTTP Error">>)] :
                 k \in 1..Len(SetupStatements)}
    ELSE {[step |-> 0, exc |-> NoExc]}

Raises(e) == [NoResult EXCEPT !.kind = "raises", !.exc = e]
ReturnsNone == [NoResult EXCEPT !.kind = "None"]
Relation(columns, rows) ==
    [NoResult EXCEPT !.kind = "relation", !.columns = columns, !.rows = rows,
                     !.repr = <<"<relation>">>]
Unfetchable(mat, repr_exc) ==
    [NoResult EXCEPT !.kind = "object", !.mat = mat, !.repr = <<"<object>">>,
                     !.repr_exc = repr_exc]

Faults == {Exc("ProgrammingError", <<"Catalog Error: no such table">>),
           Exc("Error", <<"IO Error: no such file">>),
           Exc("AttributeError", <<"no attribute 'sql'">>),
           [cls |-> "Exception", args |-> <<>>]}

MaterializationFaults ==
    {Unfetchable(Exc("AttributeError", <<"no attribute 'fetchall'">>), NoExc),
     Unfetchable(Exc("AttributeError", <<"no attribute 'fetchall'">>),
                 Exc("Exception", <<"unprintable">>)),
     Unfetchable(Exc("Error", <<"Conversion Error">>), NoExc)}

Values == {IntValue(12), StrValue(<<"x">>)}
ColumnLists == {<<<<"name">>>>, <<<<"column_name">>, <<"data_type">>>>}

\* Every relation of at most n rows over the two column lists
Relations(n) ==
    UNION {{Relation(cols, rows) :
              rows \in UNION {[1..k -> [1..Len(cols) -> Values]] : k \in 0..n}} :
           cols \in ColumnLists}

SampleRelations ==
    {Relation(<<<<"name">>>>, <<>>),
     Relation(<<<<"name">>>>, <<<<StrValue(<<"t">>)>>>>),
     Relation(<<<<"column_name">>, <<"data_type">>>>,
              <<<<StrValue(<<"id">>), IntValue(-7)>>, <<StrValue(<<"v">>), NoneValue>>>>)}

CoreOutcomes ==
    {Raises(f) : f \in Faults} \cup {ReturnsNone} \cup MaterializationFaults
    \cup SampleRelations

LoadOutcomes == {ReturnsNone, Raises(Exc("Error", <<"IO Error: no such file">>))}

Queries == {<<"select 1">>, <<"select 1", ";", "drop table t">>}
Identifiers == Texts({"t", ";"}, MaxIdLen)
ViewNames == {<<"v">>}
Paths == {<<"d", "/", "f", ".", "csv">>}
TableNames == {PyNone, Some(<<"t">>)}
Delimiters == {PyNone, Some(<<"|">>)}

\* Inputs that exercise the formatting of run_duckdb_query
RawQueries == Texts({"a", Backtick, ";"}, MaxQueryLen)
RawPaths == Texts({"p", Backtick, ";"}, 1)
RawTableNames == {PyNone, Some(<<"t">>), Some(<<"t", Backtick>>)}
RawDelimiters == {PyNone, Some(<<",">>), Some(<<";">>)}

\* Source paths for the derivation of a table name
SourcePaths ==
    Texts({"a", "/", ".", "-", " "}, MaxPathLen)
    \cup {<<"d", "/", "my", "-", "data", " ", "file", ".", "csv">>,
          <<"s3:", "/", "/", "b", "/", "a", ".", "tar", ".", "gz">>,
          <<".", ".", "a", "-", "b">>}

-----------------------------------------------------------------------------
(* The state machine *)

Init ==
    /\ supplied \in BOOLEAN
    /\ self_conn = IF supplied THEN CtorConn ELSE NoConn
    /\ connects = 0
    /\ setup_log = <<>>
    /\ setup_failed = FALSE
    /\ prev_handle = NoConn
    /\ call = [op |-> "__init__", args |-> <<>>, submitted |-> <<>>, fault |-> NoExc,
               result |-> NoResult, query_ret |-> <<>>, ret |-> <<>>, raised |-> FALSE,
               exc |-> NoExc, handle |-> NoConn]

\* The state after an operation whose effect is r
Apply(op, args, r) ==
    /\ self_conn' = r.acc.field
    /\ connects' = r.acc.connects
    /\ setup_log' = r.acc.log
    /\ setup_failed' = r.acc.setup_failed
    /\ prev_handle' = call.handle
    /\ call' = [op |-> op, args |-> args, submitted |-> r.submitted, fault |-> r.fault,
                result |-> r.result, query_ret |-> r.query_ret, ret |-> r.ret,
                raised |-> r.raised, exc |-> r.exc, handle |-> r.acc.handle]
    /\ UNCHANGED supplied

\* A caller reads the property duckdb_connection
AccessConnection ==
    \E c \in ConnectChoices, s \in SetupChoices :
        LET acc == duckdb_connection(c, s)
        IN  Apply("duckdb_connection", <<>>,
                  [acc |-> acc, submitted |-> <<>>, fault |-> acc.exc, result |-> NoResult,
                   query_ret |-> <<>>, ret |-> <<>>, raised |-> acc.raised,
                   exc |-> acc.exc])

RunDuckdbQuery(query, e) ==
    \E c \in ConnectChoices, s \in SetupChoices :
        Apply("run_duckdb_query", <<query>>, run_duckdb_query(query, c, s, e))

ShowTables(e) ==
    \E c \in ConnectChoices, s \in SetupChoices :
        Apply("show_tables", <<>>, show_tables(c, s, e))

DescribeTable(table, e) ==
    \E c \in ConnectChoices, s \in SetupChoices :
        Apply("describe_table", <<table>>, describe_table(table, c, s, e))

InspectQuery(query, e) ==
    \E c \in ConnectChoices, s \in SetupChoices :
        Apply("inspect_query", <<query>>, inspect_query(query, c, s, e))

DescribeTableOrView(table, e) ==
    \E c \in ConnectChoices, s \in SetupChoices :
        Apply("describe_table_or_view", <<table>>, describe_table_or_view(table, c, s, e))

LoadLocalPathToTable(path, table_name, e) ==
    \E c \in ConnectChoices, s \in SetupChoices :
        Apply("load_local_path_to_table", <<path, table_name, PyNone>>,
              load_local_path_to_table(path, table_name, c, s, e))

LoadLocalCsvToTable(path, table_name, delimiter, e) ==
    \E c \in ConnectChoices, s \in SetupChoices :
        Apply("load_local_csv_to_table", <<path, table_name, delimiter>>,
              load_local_csv_to_table(path, table_name, delimiter, c, s, e))

LoadS3PathToTable(s3_path, table_name, e) ==
    \E c \in ConnectChoices, s \in SetupChoices :
        Apply("load_s3_path_to_table", <<s3_path, table_name, PyNone>>,
              load_s3_path_to_table(s3_path, table_name, c, s, e))

LoadS3CsvToTable(s3_path, table_name, delimiter, e) ==
    \E c \in ConnectChoices, s \in SetupChoices :
        Apply("load_s3_csv_to_table", <<s3_path, table_name, delimiter>>,
              load_s3_csv_to_table(s3_path, table_name, delimiter, c, s, e))

LoadOps == {"load_local_path_to_table", "load_local_csv_to_table",
            "load_s3_path_to_table", "load_s3_csv_to_table"}

\* Every operation of the adapter, in any order
Next ==
    \/ AccessConnection
    \/ \E q \in Queries, e \in CoreOutcomes : RunDuckdbQuery(q, e)
    \/ \E e \in CoreOutcomes : ShowTables(e)
    \/ \E t \in Identifiers, e \in CoreOutcomes : DescribeTable(t, e)
    \/ \E q \in Queries, e \in CoreOutcomes : InspectQuery(q, e)
    \/ \E t \in ViewNames, e \in CoreOutcomes : DescribeTableOrView(t, e)
    \/ \E p \in Paths, n \in TableNames, e \in LoadOutcomes : LoadLocalPathToTable(p, n, e)
    \/ \E p \in Paths, n \in TableNames, d \in Delimiters, e \in LoadOutcomes :
          LoadLocalCsvToTable(p, n, d, e)
    \/ \E p \in Paths, n \in TableNames, e \in LoadOutcomes : LoadS3PathToTable(p, n, e)
    \/ \E p \in Paths, n \in TableNames, d \in Delimiters, e \in LoadOutcomes :
          LoadS3CsvToTable(p, n, d, e)

Spec == Init /\ [][Next]_vars

\* The operations whose input text reaches the engine, over inputs with
\* backticks and semicolons
NextText ==
    \/ AccessConnection
    \/ \E q \in RawQueries : RunDuckdbQuery(q, ReturnsNone)
    \/ \E p \in RawPaths, n \in RawTableNames : LoadLocalPathToTable(p, n, ReturnsNone)
    \/ \E p \in RawPaths, n \in RawTableNames, d \in RawDelimiters :
          LoadLocalCsvToTable(p, n, d, ReturnsNone)
    \/ \E p \in RawPaths, n \in RawTableNames : LoadS3PathToTable(p, n, ReturnsNone)
    \/ \E p \in RawPaths, n \in RawTableNames, d \in RawDelimiters :
          LoadS3CsvToTable(p, n, d, ReturnsNone)

SpecText == Init /\ [][NextText]_vars

\* The load operations called without a table name
NextNames ==
    \/ AccessConnection
    \/ \E p \in SourcePaths : LoadLocalPathToTable(p, PyNone, ReturnsNone)
    \/ \E p \in SourcePaths : LoadLocalCsvToTable(p, PyNone, PyNone, ReturnsNone)
    \/ \E p \in SourcePaths : LoadS3PathToTable(p, PyNone, ReturnsNone)
    \/ \E p \in SourcePaths : LoadS3CsvToTable(p, PyNone, PyNone, ReturnsNone)

\* The derivation reads no state: it is explored on an adapter constructed
\* around a supplied connection
InitNames == Init /\ supplied

SpecNames == InitNames /\ [][NextNames]_vars

\* Queries answered with a relation
NextFormat ==
    \/ AccessConnection
    \/ \E e \in Relations(MaxRows) : RunDuckdbQuery(<<"select * from t">>, e)
    \/ \E e \in Relations(MaxRows) : ShowTables(e)

SpecFormat == Init /\ [][NextFormat]_vars

-----------------------------------------------------------------------------
(* Properties *)

Has(s, ch) == \E i \in 1..Len(s) : s[i] = ch

\* The part of s before its first semicolon; s itself when it has none
BeforeSemi(s) ==
    IF Has(s, ";")
    THEN SubSeq(s, 1, (CHOOSE i \in 1..Len(s) :
                          s[i] = ";" /\ \A j \in 1..(i - 1) : s[j] # ";") - 1)
    ELSE s

NotBacktick(x) == x # Backtick

\* s without its backticks
StripTicks(s) == SelectSeq(s, NotBacktick)

QueryOps == {"run_duckdb_query", "show_tables", "describe_table", "inspect_query",
             "describe_table_or_view"} \cup LoadOps

\* C1 as stated: run_duckdb_query never raises, and whenever connection
\* creation, the submission or the materialization faults, the returned
\* string is the message of that fault.
C1_AsStated ==
    call.op = "run_duckdb_query" =>
        /\ ~call.raised
        /\ call.fault # NoExc => call.ret = str_exc(call.fault)

\* C1 amended: run_duckdb_query never raises; the returned string is the
\* message of the fault, except that an AttributeError raised while the
\* result is materialized yields str(query_result) instead, or the message
\* of the fault of that conversion when it faults too.
C1_FaultsReturnedAsText ==
    call.op = "run_duckdb_query" =>
        /\ ~call.raised
        /\ call.exc = NoExc
        /\ call.fault # NoExc =>
             IF call.result.kind # "unreached" /\ call.fault.cls = "AttributeError"
             THEN IF call.result.repr_exc = NoExc
                  THEN call.ret = call.result.repr
                  ELSE call.ret = str_exc(call.result.repr_exc)
             ELSE call.ret = str_exc(call.fault)

C1_Witness ==
    /\ call.op = "run_duckdb_query"
    /\ call.fault = [cls |-> "Exception", args |-> <<>>]
    /\ Len(call.submitted) = 1
    /\ ~call.raised
    /\ call.ret = <<>>

\* C2: at most one handle is ever created (none when the constructor was
\* given one), and once a handle exists every access returns it: an access
\* returns the field's handle, and the same handle as the access before.
C2_SingleHandle ==
    /\ connects <= 1
    /\ supplied => (connects = 0 /\ self_conn = CtorConn)
    /\ (~supplied /\ self_conn # NoConn) => (connects = 1 /\ self_conn = NewConn(1))
    /\ (self_conn # NoConn /\ call.op # "__init__") => call.handle = self_conn
    /\ call.handle # NoConn => call.handle = self_conn
    /\ prev_handle # NoConn => call.handle = prev_handle

C2_Witness ==
    /\ call.op = "duckdb_connection"
    /\ prev_handle = NewConn(1)
    /\ call.handle = NewConn(1)
    /\ connects = 1

\* C6: when a setup statement raises while the connection is created, the
\* accessor still returns the new handle, the field keeps it, every later
\* access returns it, and no exception reaches the caller (an operation
\* goes on to submit its statement).
C6_SetupFailureSwallowed ==
    setup_failed =>
        /\ self_conn = NewConn(1)
        /\ call.handle = self_conn
        /\ prev_handle \in {NoConn, self_conn}
        /\ ~call.raised
        /\ call.exc = NoExc
        /\ call.op \in QueryOps => Len(call.submitted) = 1

C6_Witness ==
    /\ setup_failed
    /\ setup_log = <<"INSTALL httpfs;">>
    /\ prev_handle = self_conn
    /\ call.handle = self_conn
    /\ call.op = "show_tables"
    /\ Len(call.submitted) = 1

\* C10: the setup statements are submitted at most once, in order, in the
\* accessor call that creates the handle and in no other; a failed setup is
\* not retried, and nothing is submitted when a connection was supplied.
C10_SetupAtMostOnce ==
    /\ Len(setup_log) <= Len(SetupStatements)
    /\ setup_log = SubSeq(SetupStatements, 1, Len(setup_log))
    /\ supplied => setup_log = <<>>
    /\ (setup_log # <<>>) = (connects = 1)
    /\ setup_failed => setup_log # <<>>
    /\ (~setup_failed /\ setup_log # <<>>) => setup_log = SetupStatements

C10_Witness ==
    /\ setup_failed
    /\ setup_log = <<"INSTALL httpfs;", "LOAD httpfs;">>
    /\ prev_handle = self_conn
    /\ call.handle = self_conn
    /\ call.op = "duckdb_connection"

\* C8: describe_table returns the identifier unchanged, a newline, then
\* exactly what run_duckdb_query returned for the DESCRIBE statement,
\* whatever that was.
C8_DescribeTable ==
    call.op = "describe_table" =>
        LET table == call.args[1]
        IN  /\ ~call.raised
            /\ Len(call.ret) = Len(table) + 1 + Len(call.query_ret)
            /\ SubSeq(call.ret, 1, Len(table)) = table
            /\ call.ret[Len(table) + 1] = "\n"
            /\ SubSeq(call.ret, Len(table) + 2, Len(call.ret)) = call.query_ret
            /\ call.submitted # <<>> =>
                 call.submitted[1] = <<"DESCRIBE ">> \o StripTicks(BeforeSemi(table))

C8_Witness ==
    /\ call.op = "describe_table"
    /\ call.args[1] = <<"t", ";">>
    /\ call.fault.cls = "ProgrammingError"
    /\ call.ret = <<"t", ";", "\n", "Catalog Error: no such table">>

\* The text of a row: its values' texts joined with commas
ExpectedLine(row) == Join([j \in 1..Len(row) |-> str_value(row[j])], <<",">>)

\* C9: for a relation, run_duckdb_query returns the column names joined by
\* commas, a newline, then the rows in order joined by newlines, each row
\* its values' texts joined by commas (a one-column row is the text of its
\* value alone); with no rows the header line is followed by nothing.
C9_FlattenedRelation ==
    (/\ call.op \in {"run_duckdb_query", "show_tables"}
     /\ call.result.kind = "relation"
     /\ call.fault = NoExc) =>
        LET columns == call.result.columns
            rows == call.result.rows
            header == Join(columns, <<",">>)
        IN  /\ ~call.raised
            /\ call.ret = header \o <<"\n">>
                          \o Join([i \in 1..Len(rows) |-> ExpectedLine(rows[i])], <<"\n">>)
            /\ rows = <<>> => call.ret = header \o <<"\n">>
            /\ (Len(columns) = 1 /\ rows # <<>>) =>
                 SubSeq(call.ret, Len(header) + 2,
                        Len(header) + 1 + Len(str_value(rows[1][1])))
                   = str_value(rows[1][1])
            /\ (Len(columns) = 1 /\ Len(rows) = 1) =>
                 call.ret = header \o <<"\n">> \o str_value(rows[1][1])

C9_Witness ==
    /\ call.op = "run_duckdb_query"
    /\ call.result.kind = "relation"
    /\ Len(call.result.rows) = 2
    /\ call.ret = <<"column_name", ",", "data_type", "\n",
                    "1", "2", ",", "x", "\n", "x", ",", "1", "2">>

\* C3 as stated: for an input with a semicolon, the text submitted is the
\* part of the input before its first semicolon.
C3_AsStated ==
    (/\ call.op = "run_duckdb_query"
     /\ Has(call.args[1], ";")
     /\ call.submitted # <<>>) =>
        call.submitted = <<BeforeSemi(call.args[1])>>

\* C3 amended: for an input with a semicolon, one text at most is
\* submitted, and it is the part of the input before its first semicolon
\* with the backticks of that part removed; nothing after the semicolon is
\* submitted.
C3_FirstStatementOnly ==
    (/\ call.op = "run_duckdb_query"
     /\ Has(call.args[1], ";")) =>
        /\ Len(call.submitted) <= 1
        /\ call.submitted # <<>> =>
             /\ call.submitted[1] = StripTicks(BeforeSemi(call.args[1]))
             /\ ~Has(call.submitted[1], ";")
             /\ Len(call.submitted[1]) < Len(call.args[1])

C3_Witness ==
    /\ call.op = "run_duckdb_query"
    /\ call.args[1] = <<"a", ";", "a">>
    /\ call.submitted = <<<<"a">>>>

\* C4: for an input with backticks, the text submitted holds no backtick
\* and is the input's other characters in order, up to the first semicolon.
C4_BackticksRemoved ==
    (/\ call.op = "run_duckdb_query"
     /\ Has(call.args[1], Backtick)
     /\ call.submitted # <<>>) =>
        /\ ~Has(call.submitted[1], Backtick)
        /\ call.submitted[1] = BeforeSemi(StripTicks(call.args[1]))

C4_Witness ==
    /\ call.op = "run_duckdb_query"
    /\ call.args[1] = <<"a", Backtick, "a">>
    /\ call.submitted = <<<<"a", "a">>>>

C7_DerivedNameSafe ==
    (call.op \in LoadOps /\ call.args[2].is_none) =>
        /\ ~call.raised
        /\ \A i \in 1..Len(call.ret[1]) : call.ret[1][i] \notin {"-", ".", " ", "/"}
        /\ call.args[1] = <<"d", "/", "my", "-", "data", " ", "file", ".", "csv">> =>
             call.ret[1] = <<"my", "_", "data", "_", "file">>

C7_Witness ==
    /\ call.op = "load_s3_csv_to_table"
    /\ call.args[1] = <<"d", "/", "my", "-", "data", " ", "file", ".", "csv">>
    /\ call.args[2].is_none
    /\ call.ret[1] = <<"my", "_", "data", "_", "file">>

====
